---- MODULE Spec2Model ----
(***************************************************************************)
(* Model of tick_taker.py: the per-symbol Quote tracker, the Position      *)
(* ledger, the trade-print handler on_trade and the order-update handler   *)
(* on_trade_updates.                                                       *)
(*                                                                         *)
(* Units.  Prices are integers in mills (0.001 dollar), so round(x, 3) of  *)
(* a price difference is the difference itself and round(x, 2) is Round2.  *)
(* Timestamps are integers in milliseconds.  Sizes and share quantities    *)
(* are integers.  The imbalance test a > b * 1.8 is computed as            *)
(* 10 * a > 18 * b.                                                        *)
(*                                                                         *)
(* The three handlers are coroutines without any await inside, and the two *)
(* REST calls are synchronous, so each handler run is one atomic step.     *)
(*                                                                         *)
(* A handler that raises keeps the state it had at the raise; last.err     *)
(* names the exception ("none" when the run completed, also when on_trade  *)
(* caught and logged an API error).  The order-update stream may repeat    *)
(* and reorder events; a fill carries the whole order quantity (unit), a   *)
(* partial_fill a quantity below it.                                       *)
(*                                                                         *)
(* submit_order and cancel_order are blocking calls made on the thread of  *)
(* the event loop; one that never returns leaves the loop blocked inside   *)
(* the handler, and no handler runs while it is.                           *)
(*                                                                         *)
(* The variables orders, calls, levelCalls, synced, last and tick are      *)
(* history variables: no handler reads them to decide what to do.  Spec    *)
(* is the whole program; SpecQuote is the quote stream alone, over a wider *)
(* price grid and with the tick history recorded; SpecHang is the program  *)
(* run for two symbols, with the scheduling of the event loop as fairness. *)
(***************************************************************************)
EXTENDS Integers, FiniteSets, Sequences, TLC

\* ---------------------------------------------------------------- bounds
MaxOrders == 1      \* orders that submit_order accepts in one run
MaxErrors == 1      \* submit_order calls that raise in one run
MaxLevel == 3       \* highest level_ct reached in one run

\* ------------------------------------------------------ program constants
unit == 100
max_shares == 500
MinSize == 100
GuardMs == 5
WindowOpen == 580        \* 09:40 in minutes of the day
WindowClose == 760       \* 12:40 in minutes of the day
Penny == 10              \* 0.01 dollar in mills

\* ------------------------------------------------------------ input sets
Symbols == {"SNAP"}
UnknownSymbol == "XYZ"
Bids == {10000, 10010}
Asks == {10010, 10020}
Prices == Bids \cup Asks
Sizes == {1, 2}
QuoteTimes == {10}
TradeTimes == {15, 16}
TradeSizes == {99, 100}
Clocks ==
    {[dayofweek |-> 5, minute |-> 580], [dayofweek |-> 0, minute |-> 760],
     [dayofweek |-> 6, minute |-> 580], [dayofweek |-> 5, minute |-> 579],
     [dayofweek |-> 5, minute |-> 761]}
PartialQtys == {40, 70}
Events == {"new", "fill", "partial_fill", "canceled", "rejected"}
OrderEvents == {"fill", "partial_fill", "canceled", "rejected"}
Terminal == {"fill", "canceled", "rejected"}
ApiOutcomes == {"ok", "error", "hang"}
SyncedIds == {0}         \* ids of orders that were open at startup
ForeignIds == {99}       \* ids of orders this process never saw
SyncQtys == {399, 400, 401}
HangSymbols == {"SNAP", "AAPL"}     \* --symbols of SpecHang
HangQtys == {399}
TickBids == {10000, 10010, 10020}    \* the price grid of SpecQuote
TickAsks == {10010, 10012, 10020, 10030}

VARIABLES
    quotes,        \* symbol -> Quote object
    positions,     \* symbol -> Position object
    orders,        \* history: orders accepted by submit_order, by id
    calls,         \* history: number of submit_order calls made
    levelCalls,    \* history: symbol -> submit_order calls since Quote.reset
    synced,        \* history: the snapshot that sync() was given
    last,          \* history: the most recent handler run
    tick,          \* history: symbol -> prices of the latest quote tick
    loop           \* the event loop: "idle", or "blocked" inside a call

vars ==
    <<quotes, positions, orders, calls, levelCalls, synced, last, tick, loop>>

\* ------------------------------------------------------------ arithmetic
Max(a, b) == IF a >= b THEN a ELSE b

\* round(x, 2) of a difference in mills, to the nearest cent, ties to even
Round2(d) ==
    LET a == IF d < 0 THEN -d ELSE d
        q == a \div 10
        r == a % 10
        n == IF r < 5 THEN q
             ELSE IF r > 5 THEN q + 1
             ELSE IF q % 2 = 0 THEN q ELSE q + 1
    IN  IF d < 0 THEN -(n * 10) ELSE n * 10

\* ----------------------------------------------------------------- Quote
\* a Quote that starts eligible to trade
QuoteInit_untraded ==
    [prev_bid |-> 0, prev_ask |-> 0, prev_spread |-> 0, bid |-> 0, ask |-> 0,
     bid_size |-> 0, ask_size |-> 0, spread |-> 0, traded |-> FALSE,
     level_ct |-> 1, time |-> 0]

QuoteInit ==
    [prev_bid |-> 0, prev_ask |-> 0, prev_spread |-> 0, bid |-> 0, ask |-> 0,
     bid_size |-> 0, ask_size |-> 0, spread |-> 0, traded |-> TRUE,
     level_ct |-> 1, time |-> 0]

reset(q) == [q EXCEPT !.traded = FALSE, !.level_ct = q.level_ct + 1]

\* the level-change test satisfied by a move of either price
LevelChange_either(q, data) ==
    /\ (q.bid # data.bidprice \/ q.ask # data.askprice)
    /\ Round2(data.askprice - data.bidprice) = Penny

LevelChange(q, data) ==
    /\ q.bid # data.bidprice
    /\ q.ask # data.askprice
    /\ Round2(data.askprice - data.bidprice) = Penny

\* update that resets on every level change
update_always_resets(q, data) ==
    LET sized == [q EXCEPT !.bid_size = data.bidsize,
                           !.ask_size = data.asksize]
        moved == [sized EXCEPT !.prev_bid = q.bid, !.prev_ask = q.ask,
                               !.bid = data.bidprice, !.ask = data.askprice,
                               !.time = data.timestamp,
                               !.prev_spread = q.ask - q.bid,
                               !.spread = data.askprice - data.bidprice]
    IN  IF LevelChange(q, data) THEN reset(moved) ELSE sized

update(q, data) ==
    LET sized == [q EXCEPT !.bid_size = data.bidsize,
                           !.ask_size = data.asksize]
        moved == [sized EXCEPT !.prev_bid = q.bid, !.prev_ask = q.ask,
                               !.bid = data.bidprice, !.ask = data.askprice,
                               !.time = data.timestamp,
                               !.prev_spread = q.ask - q.bid,
                               !.spread = data.askprice - data.bidprice]
    IN  IF LevelChange(q, data)
        THEN IF moved.prev_spread = Penny THEN reset(moved) ELSE moved
        ELSE sized

\* -------------------------------------------------------------- Position
PositionInit ==
    [orders_filled_amount |-> <<>>, pending_buy_shares |-> 0,
     pending_sell_shares |-> 0, total_shares |-> 0]

update_pending_buy_shares(p, quantity) ==
    [p EXCEPT !.pending_buy_shares = p.pending_buy_shares + quantity]

update_pending_sell_shares(p, quantity) ==
    [p EXCEPT !.pending_sell_shares = p.pending_sell_shares + quantity]

update_total_shares(p, quantity) ==
    [p EXCEPT !.total_shares = p.total_shares + quantity]

\* update_filled_amount with the test new_amount != old_amount
update_filled_amount_on_any_change(p, order_id, new_amount, side) ==
    LET old_amount == p.orders_filled_amount[order_id]
        moved == IF side = "buy"
                 THEN update_total_shares(
                          update_pending_buy_shares(p, old_amount - new_amount),
                          new_amount - old_amount)
                 ELSE update_total_shares(
                          update_pending_sell_shares(p, old_amount - new_amount),
                          old_amount - new_amount)
    IN  IF new_amount # old_amount
        THEN [moved EXCEPT !.orders_filled_amount[order_id] = new_amount]
        ELSE p

\* update_filled_amount that records the amount and leaves pending alone
update_filled_amount_keeps_pending(p, order_id, new_amount, side) ==
    LET old_amount == p.orders_filled_amount[order_id]
        moved == IF side = "buy"
                 THEN update_total_shares(p, new_amount - old_amount)
                 ELSE update_total_shares(p, old_amount - new_amount)
    IN  IF new_amount > old_amount
        THEN [moved EXCEPT !.orders_filled_amount[order_id] = new_amount]
        ELSE p

\* the caller has checked that order_id is a key (otherwise KeyError)
update_filled_amount(p, order_id, new_amount, side) ==
    LET old_amount == p.orders_filled_amount[order_id]
        moved == IF side = "buy"
                 THEN update_total_shares(
                          update_pending_buy_shares(p, old_amount - new_amount),
                          new_amount - old_amount)
                 ELSE update_total_shares(
                          update_pending_sell_shares(p, old_amount - new_amount),
                          old_amount - new_amount)
    IN  IF new_amount > old_amount
        THEN [moved EXCEPT !.orders_filled_amount[order_id] = new_amount]
        ELSE p

\* remove_pending_order that forgets the amount already filled
remove_pending_order_whole_unit(p, order_id, side, u) ==
    LET moved == IF side = "buy"
                 THEN update_pending_buy_shares(p, 0 - u)
                 ELSE update_pending_sell_shares(p, 0 - u)
        f == p.orders_filled_amount
    IN  [moved EXCEPT !.orders_filled_amount =
                          [o \in (DOMAIN f) \ {order_id} |-> f[o]]]

\* remove_pending_order without the del
remove_pending_order_keeps_key(p, order_id, side, u) ==
    LET old_amount == p.orders_filled_amount[order_id]
    IN  IF side = "buy"
        THEN update_pending_buy_shares(p, old_amount - u)
        ELSE update_pending_sell_shares(p, old_amount - u)

\* the caller has checked that order_id is a key (otherwise KeyError)
remove_pending_order(p, order_id, side, u) ==
    LET old_amount == p.orders_filled_amount[order_id]
        moved == IF side = "buy"
                 THEN update_pending_buy_shares(p, old_amount - u)
                 ELSE update_pending_sell_shares(p, old_amount - u)
        f == p.orders_filled_amount
    IN  [moved EXCEPT !.orders_filled_amount =
                          [o \in (DOMAIN f) \ {order_id} |-> f[o]]]

RECURSIVE SumOpen(_, _)
SumOpen(open, buy) ==
    IF open = {} THEN 0
    ELSE LET o == CHOOSE x \in open : TRUE
         IN  (IF (o.side = "buy") = buy THEN o.qty - o.filled_qty ELSE 0)
             + SumOpen(open \ {o}, buy)

\* position.found is FALSE for None
sync(p, position, open_orders) ==
    [p EXCEPT !.total_shares = IF ~position.found THEN 0 ELSE position.qty,
              !.pending_buy_shares =
                  IF open_orders = {} THEN 0 ELSE SumOpen(open_orders, TRUE),
              !.pending_sell_shares =
                  IF open_orders = {} THEN 0 ELSE SumOpen(open_orders, FALSE)]

\* -------------------------------------------------------- initial state
\* setup(): one Quote and one Position per symbol, the Position synced from
\* the account's position and open orders for that symbol
NoPosition == [found |-> FALSE, qty |-> 0]
Held(qtys) == [found : {TRUE}, qty : qtys]

OneOpenBuy(s) ==
    {{[id |-> i, symbol |-> s, side |-> "buy", qty |-> unit,
       filled_qty |-> 40]} : i \in SyncedIds}

\* no quote tick seen yet
NoTick == [bid |-> 0, ask |-> 0, pbid |-> 0, pask |-> 0, flagged |-> FALSE]

NoRun ==
    [op |-> "setup", symbol |-> "", ours |-> FALSE, res |-> "none",
     err |-> "none"]

\* account maps each symbol of --symbols to its snapshot
Setup(account) ==
    /\ synced = account
    /\ quotes = [s \in DOMAIN account |-> QuoteInit]
    /\ positions = [s \in DOMAIN account |->
                       sync(PositionInit, account[s].position,
                            account[s].open_orders)]
    /\ orders = <<>>
    /\ calls = 0
    /\ levelCalls = [s \in DOMAIN account |-> 0]
    /\ last = NoRun
    /\ tick = [s \in DOMAIN account |-> NoTick]
    /\ loop = "idle"

\* a fresh account, or one that already holds shares
Init ==
    \E p \in {NoPosition} \cup Held(SyncQtys) :
        Setup([s \in Symbols |-> [position |-> p, open_orders |-> {}]])

\* -------------------------------------------------------------- on_quote
QuoteData ==
    [bidprice : Bids, askprice : Asks, bidsize : Sizes, asksize : Sizes,
     timestamp : QuoteTimes]

\* one run of on_quote; keep says whether the history variable tick
\* records this tick: its prices, those of the tick before it, and whether
\* update took the branch that logs 'level change'
Tick(symbol, data, keep) ==
    LET quote == quotes[symbol]
        after == update(quote, data)
        isReset == after.level_ct # quote.level_ct
    IN  /\ loop = "idle"
        /\ after.level_ct <= MaxLevel
        /\ quotes' = [quotes EXCEPT ![symbol] = after]
        /\ levelCalls' = IF isReset
                          THEN [levelCalls EXCEPT ![symbol] = 0]
                          ELSE levelCalls
        /\ last' = [NoRun EXCEPT !.op = "Q", !.symbol = symbol]
        /\ tick' = IF keep
                    THEN [tick EXCEPT ![symbol] =
                            [bid |-> data.bidprice, ask |-> data.askprice,
                             pbid |-> tick[symbol].bid,
                             pask |-> tick[symbol].ask,
                             flagged |-> LevelChange(quote, data)]]
                    ELSE tick
        /\ UNCHANGED <<positions, orders, calls, synced, loop>>

on_quote(symbol) == \E data \in QuoteData : Tick(symbol, data, FALSE)

\* -------------------------------------------------------------- on_trade
TradeData == [price : Prices, size : TradeSizes, timestamp : TradeTimes]

InWindow(t) ==
    /\ 0 <= t.dayofweek /\ t.dayofweek <= 5
    /\ t.minute >= WindowOpen
    /\ t.minute <= WindowClose

TooClose(quote, data) == data.timestamp <= quote.time + GuardMs

BuySignal(quote, data) ==
    /\ data.price = quote.ask
    /\ 10 * quote.bid_size > 18 * quote.ask_size

\* the exposure test with <= in place of <
BuyRoom_inclusive(position) ==
    position.total_shares + position.pending_buy_shares <= max_shares - unit

\* the exposure test without the room for one more unit
BuyRoom_without_unit(position) ==
    position.total_shares + position.pending_buy_shares < max_shares

BuyRoom(position) ==
    position.total_shares + position.pending_buy_shares < max_shares - unit

SellSignal(quote, data) ==
    /\ data.price = quote.bid
    /\ 10 * quote.ask_size > 18 * quote.bid_size

\* the holdings test without the room for one more unit
SellRoom_without_unit(position) ==
    position.total_shares - position.pending_sell_shares >= 0

SellRoom(position) ==
    position.total_shares - position.pending_sell_shares >= unit

\* the try block of one path: submit_order, cancel_order, then the ledger
\* update and quote.traded = True; an exception from either call skips the
\* rest of the block and is caught and logged
Place(symbol, side) ==
    \E submit \in ApiOutcomes, cancel \in ApiOutcomes :
    LET o == calls + 1
        position == positions[symbol]
        registered == submit = "ok" /\ cancel = "ok"
        hangs == submit = "hang" \/ (submit = "ok" /\ cancel = "hang")
        pended == IF side = "buy"
                  THEN update_pending_buy_shares(position, unit)
                  ELSE update_pending_sell_shares(position, unit)
        entered == [pended EXCEPT !.orders_filled_amount =
                       [i \in (DOMAIN position.orders_filled_amount) \cup {o}
                          |-> IF i = o THEN 0
                              ELSE position.orders_filled_amount[i]]]
    IN  /\ submit = "ok" => Cardinality(DOMAIN orders) < MaxOrders
        /\ submit # "ok" => calls - Cardinality(DOMAIN orders) < MaxErrors
        /\ calls' = o
        /\ levelCalls' = [levelCalls EXCEPT ![symbol] = @ + 1]
        /\ positions' = IF registered
                         THEN [positions EXCEPT ![symbol] = entered]
                         ELSE positions
        /\ quotes' = IF registered
                      THEN [quotes EXCEPT ![symbol].traded = TRUE]
                      ELSE quotes
        /\ orders' = IF submit = "ok"
                      THEN [i \in (DOMAIN orders) \cup {o} |->
                              IF i = o
                              THEN [symbol |-> symbol, side |-> side,
                                    registered |-> registered,
                                    term |-> "none", delivered |-> 0,
                                    filled |-> 0,
                                    pend |-> IF registered THEN unit ELSE 0,
                                    tot |-> 0]
                              ELSE orders[i]]
                      ELSE orders
        /\ loop' = IF hangs THEN "blocked" ELSE loop
        /\ last' = [NoRun EXCEPT !.op = "T", !.symbol = symbol,
                        !.res = IF submit = "hang" THEN side \o "_submit_hang"
                                ELSE IF submit # "ok"
                                THEN side \o "_submit_error"
                                ELSE IF cancel = "hang"
                                THEN side \o "_cancel_hang"
                                ELSE IF cancel # "ok"
                                THEN side \o "_cancel_error"
                                ELSE side \o "_ok"]

Pass(symbol, why) ==
    /\ last' = [NoRun EXCEPT !.op = "T", !.symbol = symbol, !.res = why]
    /\ UNCHANGED <<quotes, positions, orders, calls, levelCalls, loop>>

Decide(symbol, data) ==
    LET quote == quotes[symbol]
        position == positions[symbol]
    IN  IF TooClose(quote, data) THEN Pass(symbol, "latency")
        ELSE IF ~(data.size >= MinSize) THEN Pass(symbol, "size")
        ELSE IF BuySignal(quote, data) /\ BuyRoom(position)
             THEN Place(symbol, "buy")
        ELSE IF SellSignal(quote, data) /\ SellRoom(position)
             THEN Place(symbol, "sell")
        ELSE IF BuySignal(quote, data) THEN Pass(symbol, "buy_full")
        ELSE IF SellSignal(quote, data) THEN Pass(symbol, "sell_short")
        ELSE Pass(symbol, "no_signal")

\* on_trade without the already-traded gate
on_trade_ignores_traded(symbol) ==
    /\ loop = "idle"
    /\ \E t \in Clocks :
          IF ~InWindow(t) THEN Pass(symbol, "window")
          ELSE \E data \in TradeData : Decide(symbol, data)
    /\ UNCHANGED <<synced, tick>>

on_trade(symbol) ==
    /\ loop = "idle"
    /\ \E t \in Clocks :
          IF ~InWindow(t) THEN Pass(symbol, "window")
          ELSE IF quotes[symbol].traded THEN Pass(symbol, "traded")
          ELSE \E data \in TradeData : Decide(symbol, data)
    /\ UNCHANGED <<synced, tick>>

\* ------------------------------------------------------ on_trade_updates
\* what the stream can name: the orders submit_order returned, the orders
\* that were open at startup, and orders placed on the account by others
StreamOrders ==
    {[id |-> o, symbol |-> orders[o].symbol, side |-> orders[o].side] :
        o \in DOMAIN orders}
    \cup {[id |-> o.id, symbol |-> o.symbol, side |-> o.side] :
        o \in UNION {synced[s].open_orders : s \in DOMAIN synced}}
    \cup [id : ForeignIds, symbol : (DOMAIN positions) \cup {UnknownSymbol},
          side : {"buy"}]

\* filled_qty carried by an event: the whole order on fill, part of it on
\* partial_fill; the handler does not read it on the other events
FilledQtys(event) ==
    IF event = "fill" THEN {unit}
    ELSE IF event = "partial_fill" THEN PartialQtys
    ELSE {0}

\* the fill branch counting the cumulative amount instead of the delta
fill_counts_cumulative(p, order_id, new_amount, side) ==
    LET counted == IF side = "buy"
                   THEN update_total_shares(p, new_amount)
                   ELSE update_total_shares(p, 0 - new_amount)
    IN  remove_pending_order(counted, order_id, side, unit)

\* the fill branch taking the whole unit off pending
fill_removes_whole_unit(p, order_id, new_amount, side) ==
    LET old_amount == p.orders_filled_amount[order_id]
        counted == IF side = "buy"
                   THEN update_total_shares(p, new_amount - old_amount)
                   ELSE update_total_shares(p, old_amount - new_amount)
    IN  remove_pending_order(counted, order_id, side, unit + old_amount)

\* the fill branch, once the lookup of the order id has succeeded
fill(p, order_id, new_amount, side) ==
    LET old_amount == p.orders_filled_amount[order_id]
        counted == IF side = "buy"
                   THEN update_total_shares(p, new_amount - old_amount)
                   ELSE update_total_shares(p, old_amount - new_amount)
    IN  remove_pending_order(counted, order_id, side, unit)

Pending(p, side) ==
    IF side = "buy" THEN p.pending_buy_shares ELSE p.pending_sell_shares

\* one run of on_trade_updates
Update(event, order, filled_qty) ==
        LET symbol == order.symbol
            known == symbol \in DOMAIN positions
            position == positions[symbol]
            tracked == known /\ order.id \in DOMAIN position.orders_filled_amount
            after == IF event = "fill"
                     THEN fill(position, order.id, filled_qty, order.side)
                     ELSE IF event = "partial_fill"
                     THEN update_filled_amount(position, order.id, filled_qty,
                                               order.side)
                     ELSE remove_pending_order(position, order.id, order.side,
                                               unit)
            acts == event \in OrderEvents /\ tracked
            now == IF acts THEN after ELSE position
            rec == orders[order.id]
            old == position.orders_filled_amount[order.id]
        IN  /\ loop = "idle"
            /\ positions' = IF acts THEN [positions EXCEPT ![symbol] = after]
                            ELSE positions
            /\ orders' =
                 IF order.id \in DOMAIN orders
                 THEN [orders EXCEPT ![order.id] =
                        [rec EXCEPT
                           !.term = IF rec.term = "none" /\ event \in Terminal
                                    THEN event ELSE rec.term,
                           !.delivered =
                               IF rec.term = "none"
                                  /\ event \in {"fill", "partial_fill"}
                               THEN Max(rec.delivered, filled_qty)
                               ELSE rec.delivered,
                           !.filled =
                               IF acts /\ event = "partial_fill"
                               THEN after.orders_filled_amount[order.id]
                               ELSE rec.filled,
                           !.pend = rec.pend + Pending(now, rec.side)
                                             - Pending(position, rec.side),
                           !.tot = rec.tot + now.total_shares
                                           - position.total_shares]]
                 ELSE orders
            /\ last' = [NoRun EXCEPT
                           !.op = event, !.symbol = symbol,
                           !.ours = order.id \in DOMAIN orders,
                           !.res = IF ~known THEN "no_ledger"
                                   ELSE IF ~tracked THEN "untracked"
                                   ELSE IF event # "partial_fill" THEN "tracked"
                                   ELSE IF filled_qty < old THEN "stale_lower"
                                   ELSE IF filled_qty = old THEN "stale_same"
                                   ELSE "tracked",
                           !.err = IF event \notin OrderEvents THEN "none"
                                   ELSE IF ~known THEN "AttributeError"
                                   ELSE IF ~tracked THEN "KeyError"
                                   ELSE "none"]
            /\ UNCHANGED <<quotes, calls, levelCalls, synced, tick, loop>>

on_trade_updates ==
    \E event \in Events, order \in StreamOrders :
    \E filled_qty \in FilledQtys(event) : Update(event, order, filled_qty)

\* ------------------------------------------------------- specification
Next ==
    \/ \E symbol \in DOMAIN quotes : on_quote(symbol)
    \/ \E symbol \in DOMAIN quotes : on_trade(symbol)
    \/ on_trade_updates

Spec == Init /\ [][Next]_vars

TypeOK ==
    /\ calls \in 0..(MaxOrders + MaxErrors)
    /\ DOMAIN orders \subseteq 1..(MaxOrders + MaxErrors)
    /\ Cardinality(DOMAIN orders) <= MaxOrders

\* ------------------------------------------- the quote stream on its own
TickData ==
    [bidprice : TickBids, askprice : TickAsks, bidsize : Sizes,
     asksize : Sizes, timestamp : QuoteTimes]

on_quote_recorded(symbol) == \E data \in TickData : Tick(symbol, data, TRUE)

InitQuote ==
    Setup([s \in Symbols |-> [position |-> NoPosition, open_orders |-> {}]])

NextQuote == \E symbol \in DOMAIN quotes : on_quote_recorded(symbol)

SpecQuote == InitQuote /\ [][NextQuote]_vars

\* ------------------------------------------ two symbols and the event loop
\* quote ticks one cent wide whose sizes give the buy signal
HangQuoteData ==
    {data \in QuoteData : /\ data.askprice - data.bidprice = Penny
                          /\ data.bidsize = 2 /\ data.asksize = 1}

on_quote_hang(symbol) ==
    \E data \in HangQuoteData : Tick(symbol, data, FALSE)

\* order updates for the orders that submit_order accepted
on_trade_updates_hang ==
    \E event \in Events :
    \E order \in {o \in StreamOrders : o.id \in DOMAIN orders} :
    \E filled_qty \in FilledQtys(event) : Update(event, order, filled_qty)

InitHang ==
    \E p \in Held(HangQtys) :
        Setup([s \in HangSymbols |-> [position |-> p, open_orders |-> {}]])

NextHang ==
    \/ \E symbol \in DOMAIN quotes : on_quote_hang(symbol)
    \/ \E symbol \in DOMAIN quotes : on_trade(symbol)
    \/ on_trade_updates_hang

\* the streams keep delivering events for every subscribed symbol, and the
\* event loop runs the handler of a delivered event whenever it is idle
FairHang ==
    /\ \A symbol \in HangSymbols : WF_vars(on_quote_hang(symbol))
    /\ \A symbol \in HangSymbols : WF_vars(on_trade(symbol))
    /\ WF_vars(on_trade_updates_hang)

SpecHang == InitHang /\ [][NextHang]_vars /\ FairHang

\* ------------------------------------------------------------ properties
Ledger(o) == positions[orders[o].symbol]
Tracked(o) == o \in DOMAIN Ledger(o).orders_filled_amount
Exposure(p) == p.total_shares + p.pending_buy_shares
PlacedBuy ==
    {"buy_ok", "buy_submit_error", "buy_cancel_error", "buy_submit_hang",
     "buy_cancel_hang"}
PlacedSell ==
    {"sell_ok", "sell_submit_error", "sell_cancel_error", "sell_submit_hang",
     "sell_cancel_hang"}

\* net (buy minus sell) cumulative filled quantity that the stream has
\* delivered for the accepted orders in ids that belong to symbol s
RECURSIVE NetDelivered(_, _)
NetDelivered(ids, s) ==
    IF ids = {} THEN 0
    ELSE LET o == CHOOSE x \in ids : TRUE
             d == IF orders[o].symbol # s THEN 0
                  ELSE IF orders[o].side = "buy" THEN orders[o].delivered
                  ELSE 0 - orders[o].delivered
         IN  d + NetDelivered(ids \ {o}, s)

SyncedShares(s) ==
    sync(PositionInit, synced[s].position, synced[s].open_orders).total_shares

\* C1: a buy order that the buy path registered and whose fill event (for
\* the whole unit) has been processed, after any partial fills, has left the
\* pending buy counter where it was before the submission and has raised
\* total_shares by exactly unit.
C1_FillSettlesBuy ==
    \A o \in DOMAIN orders :
        (orders[o].side = "buy" /\ orders[o].registered
         /\ orders[o].term = "fill")
        => (orders[o].pend = 0 /\ orders[o].tot = unit)

\* submit, partial_fill 40, fill 100
C1_Witness ==
    \E o \in DOMAIN orders :
        /\ orders[o].side = "buy" /\ orders[o].registered
        /\ orders[o].term = "fill" /\ orders[o].filled = 40
        /\ last.op = "fill" /\ last.err = "none"

\* C2: in every state total_shares is the synced quantity plus the net
\* filled quantity the stream has delivered for accepted orders, and no
\* order-update handler run for such an order aborts.
C2_LedgerFollowsStream ==
    /\ \A s \in Symbols :
          positions[s].total_shares
              = SyncedShares(s) + NetDelivered(DOMAIN orders, s)
    /\ (last.op \in OrderEvents /\ last.ours) => last.err = "none"

\* C3: between two resets of a symbol's Quote, submit_order is called at
\* most once for that symbol.
C3_OneSubmitPerLevel == \A s \in Symbols : levelCalls[s] <= 1

\* C4: a trade handler run in which submit_order or cancel_order failed
\* ends with traded = true and the pending counter of that side higher by
\* unit than before the run.
C4_FailureKeepsOptimisticUpdate ==
    [][\A s \in Symbols :
         (last'.op = "T" /\ last'.symbol = s
          /\ last'.res \in {"buy_submit_error", "buy_cancel_error",
                            "sell_submit_error", "sell_cancel_error"})
         => /\ quotes'[s].traded
            /\ LET side == IF last'.res \in PlacedBuy THEN "buy" ELSE "sell"
               IN  Pending(positions'[s], side)
                       = Pending(positions[s], side) + unit]_vars

\* C5: every order that submit_order accepted and that has had no terminal
\* event is in the filled-amount map of its symbol, so any order update
\* that arrives for it finds it registered.
C5_RegisteredBeforeNotified ==
    \A o \in DOMAIN orders : orders[o].term = "none" => Tracked(o)

\* C6 as stated: with the gates and the buy signal passing, the print is
\* rejected at total + pending buy = 401 and a buy is submitted at 400.
C6_AsStated ==
    [][\A s \in Symbols :
         (last'.op = "T" /\ last'.symbol = s
          /\ last'.res \in PlacedBuy \cup {"buy_full"})
         => /\ Exposure(positions[s]) = 401 => calls' = calls
            /\ Exposure(positions[s]) = 400 => calls' = calls + 1]_vars

\* C6 as amended: with the gates and the buy signal passing, the print is
\* rejected at total + pending buy = 401 and at 400, and a buy is submitted
\* at 399.
C6_BuyThreshold ==
    [][\A s \in Symbols :
         (last'.op = "T" /\ last'.symbol = s
          /\ last'.res \in PlacedBuy \cup {"buy_full"})
         => /\ Exposure(positions[s]) = 401 =>
                  (calls' = calls /\ last'.res = "buy_full")
            /\ Exposure(positions[s]) = 400 =>
                  (calls' = calls /\ last'.res = "buy_full")
            /\ Exposure(positions[s]) = 399 =>
                  (calls' = calls + 1 /\ last'.res \in PlacedBuy)]_vars

\* a print with the buy signal was turned away at exactly 400
C6_Witness ==
    \E s \in Symbols :
        /\ last.op = "T" /\ last.symbol = s /\ last.res = "buy_full"
        /\ Exposure(positions[s]) = max_shares - unit

\* C7: once canceled or rejected has been processed for an order, its id
\* is not in the filled-amount map and the order's net effect on its
\* pending counter is zero, whatever partial fills were recorded.
C7_CancelRestoresPending ==
    \A o \in DOMAIN orders :
        orders[o].term \in {"canceled", "rejected"}
        => (~Tracked(o) /\ orders[o].pend = 0)

\* submit, partial_fill 70, canceled
C7_Witness ==
    \E o \in DOMAIN orders :
        /\ orders[o].registered /\ orders[o].term = "canceled"
        /\ orders[o].filled = 70
        /\ last.op = "canceled" /\ last.err = "none"

\* C8: a partial_fill for a tracked order whose cumulative quantity is not
\* greater than the recorded one changes nothing in any Position.
C8_StalePartialFillIsNoOp ==
    [][(last'.op = "partial_fill"
        /\ last'.res \in {"stale_lower", "stale_same"})
       => positions' = positions]_vars

\* partial_fill 70 recorded, then partial_fill 40 arrives
C8_Witness ==
    /\ last.op = "partial_fill" /\ last.res = "stale_lower"
    /\ \E o \in DOMAIN orders : Tracked(o) /\ orders[o].filled = 70

\* C9: an order update naming an order id that is not in the filled-amount
\* map of its symbol completes without raising.
C9_UntrackedIdSkipped ==
    (last.op \in OrderEvents /\ last.res = "untracked") => last.err = "none"

\* C10: an order update whose symbol has no Position completes without
\* raising.
C10_UnknownSymbolSkipped ==
    (last.op \in OrderEvents /\ last.res = "no_ledger") => last.err = "none"

\* the last step was a quote tick for symbol s
QuoteStep(s) == last'.op = "Q" /\ last'.symbol = s

\* C11 as stated: a tick is flagged as a level change exactly when its bid
\* and its ask both differ from those of the tick before it and its ask
\* minus bid is one cent (taken as the code takes it, rounded to cents).
C11_AsStated ==
    [][\A s \in Symbols :
         QuoteStep(s)
         => (tick'[s].flagged
             <=> /\ tick'[s].bid # tick[s].bid
                 /\ tick'[s].ask # tick[s].ask
                 /\ Round2(tick'[s].ask - tick'[s].bid) = Penny)]_vars

\* C11 as amended: a tick is flagged as a level change exactly when its bid
\* and its ask both differ from the bid and the ask the Quote has stored
\* (those of the last flagged tick, zero before any) and its ask minus bid
\* rounds to one cent; a flagged tick becomes the stored level and any
\* other tick leaves the stored level alone.
C11_FlaggedAgainstStoredLevel ==
    [][\A s \in Symbols :
         QuoteStep(s)
         => /\ tick'[s].flagged
                <=> /\ tick'[s].bid # quotes[s].bid
                    /\ tick'[s].ask # quotes[s].ask
                    /\ Round2(tick'[s].ask - tick'[s].bid) = Penny
            /\ tick'[s].flagged
                => /\ quotes'[s].bid = tick'[s].bid
                   /\ quotes'[s].ask = tick'[s].ask
                   /\ quotes'[s].prev_bid = quotes[s].bid
                   /\ quotes'[s].prev_ask = quotes[s].ask
            /\ ~tick'[s].flagged
                => /\ quotes'[s].bid = quotes[s].bid
                   /\ quotes'[s].ask = quotes[s].ask]_vars

\* a tick whose ask is that of the tick before it, and whose bid is not,
\* was flagged
C11_Witness ==
    \E s \in Symbols :
        /\ last.op = "Q" /\ tick[s].flagged
        /\ tick[s].ask = tick[s].pask /\ tick[s].bid # tick[s].pbid
        /\ quotes[s].prev_ask # 0

\* C12 as stated: a level change that follows a tick with a two-cent
\* spread leaves traded and level_ct unchanged.
C12_AsStated ==
    [][\A s \in Symbols :
         (QuoteStep(s) /\ tick'[s].flagged
          /\ tick[s].ask - tick[s].bid = 2 * Penny)
         => /\ quotes'[s].traded = quotes[s].traded
            /\ quotes'[s].level_ct = quotes[s].level_ct]_vars

\* C12 as amended: a level change sets traded to false and raises level_ct
\* by one exactly when the level the Quote had stored before it (not the
\* tick before it) was exactly one cent wide; the first level change, from
\* the initial zero prices, a level change from a stored level of another
\* width, and every tick that is not a level change leave both unchanged.
C12_ResetFromStoredPennyLevel ==
    [][\A s \in Symbols :
         QuoteStep(s)
         => IF tick'[s].flagged /\ quotes[s].ask - quotes[s].bid = Penny
            THEN /\ ~quotes'[s].traded
                 /\ quotes'[s].level_ct = quotes[s].level_ct + 1
            ELSE /\ quotes'[s].traded = quotes[s].traded
                 /\ quotes'[s].level_ct = quotes[s].level_ct]_vars

\* the first reset happened on a level change whose preceding tick was two
\* cents wide
C12_Witness ==
    \E s \in Symbols :
        /\ last.op = "Q" /\ tick[s].flagged
        /\ tick[s].pask - tick[s].pbid = 2 * Penny
        /\ quotes[s].prev_spread = Penny
        /\ quotes[s].level_ct = 2 /\ ~quotes[s].traded

\* C13: when a submit_order or cancel_order call made for one symbol never
\* returns, a handler still eventually runs for every other symbol.
C13_HangStallsOnlyThatInstrument ==
    \A s \in HangSymbols : \A t \in HangSymbols \ {s} :
        (loop = "blocked" /\ last.symbol = s) ~> (last.symbol = t)

SyncedPosition(s) ==
    sync(PositionInit, synced[s].position, synced[s].open_orders)

Sellable(p) == p.total_shares - p.pending_sell_shares

RECURSIVE Outstanding(_, _, _)
Outstanding(p, ids, side) ==
    IF ids = {} THEN 0
    ELSE LET o == CHOOSE x \in ids : TRUE
         IN  (IF orders[o].side = side
              THEN unit - p.orders_filled_amount[o] ELSE 0)
             + Outstanding(p, ids \ {o}, side)

C17_KeysAreLiveOrders ==
    [][/\ \A s \in Symbols :
            \A o \in DOMAIN positions'[s].orders_filled_amount :
                /\ o \in DOMAIN orders'
                /\ orders'[o].symbol = s
                /\ orders'[o].term = "none"
       /\ \A o \in DOMAIN orders :
            LET was == o \in DOMAIN positions[orders[o].symbol]
                                        .orders_filled_amount
                is == o \in DOMAIN positions'[orders[o].symbol]
                                        .orders_filled_amount
            IN  /\ ~was => ~is
                /\ (was /\ ~is) <=> (orders[o].term = "none"
                                     /\ orders[o].registered
                                     /\ orders'[o].term \in Terminal)]_vars

\* a registered order whose fill was processed, and a second terminal
\* event for it has arrived since
C17_Witness ==
    \E o \in DOMAIN orders :
        /\ orders[o].registered /\ orders[o].term = "fill" /\ ~Tracked(o)
        /\ last.op = "canceled" /\ last.ours /\ last.res = "untracked"

\* C18: neither pending counter is negative in any reachable state.
C18_PendingNotNegative ==
    \A s \in Symbols :
        /\ positions[s].pending_buy_shares >= 0
        /\ positions[s].pending_sell_shares >= 0

\* partial_fill 70, then fill, then a duplicate of the fill
C18_Witness ==
    \E o \in DOMAIN orders :
        /\ orders[o].registered /\ orders[o].filled = 70
        /\ orders[o].term = "fill"
        /\ last.op = "fill" /\ last.ours /\ last.res = "untracked"
        /\ Pending(Ledger(o), orders[o].side) = 0

Gates == {"window", "traded", "latency", "size"}

\* C19: one run of the trade handler makes at most one submit_order call;
\* a run stopped by a gate, and any run for a Quote that is traded, makes
\* none and leaves every Quote and every Position as it was.
C19_OneOrderPerPrint ==
    [][\A s \in Symbols :
         (last'.op = "T" /\ last'.symbol = s)
         => /\ calls' \in {calls, calls + 1}
            /\ Cardinality(DOMAIN orders' \ DOMAIN orders) <= 1
            /\ (last'.res \in PlacedBuy \cup PlacedSell) <=> calls' = calls + 1
            /\ (last'.res \in Gates \/ quotes[s].traded)
                => (calls' = calls /\ orders' = orders /\ quotes' = quotes
                    /\ positions' = positions)]_vars

\* a print that passed the window and the traded gate was stopped by the
\* latency gate
C19_Witness ==
    \E s \in Symbols :
        /\ last.op = "T" /\ last.symbol = s /\ last.res = "latency"
        /\ ~quotes[s].traded /\ quotes[s].level_ct = 2

\* C20: when submit_order is called for a symbol, its Quote has been reset
\* at least once and holds a stored level and a previous level, both set
\* by level changes (the prices start at zero and no tick has a zero
\* price), so at least two level changes came before the call.
C20_NoOrderBeforeSecondLevelChange ==
    [][\A s \in Symbols :
         (calls' = calls + 1 /\ last'.symbol = s)
         => /\ quotes[s].level_ct >= 2
            /\ quotes[s].bid # 0 /\ quotes[s].ask # 0
            /\ quotes[s].prev_bid # 0 /\ quotes[s].prev_ask # 0]_vars

\* the first submit_order call, made on the level of the second level change
C20_Witness ==
    \E s \in Symbols :
        /\ last.op = "T" /\ last.symbol = s
        /\ last.res \in PlacedBuy \cup PlacedSell
        /\ calls = 1 /\ quotes[s].level_ct = 2

====
